---- MODULE Spec2Model ----
(***************************************************************************)
(* Model of hulk66/photo_tagging: the EXIF date correction of              *)
(* date_correct.py (set_exif_date, find_and_set_exif_date) and the         *)
(* content tagging of tagger.py (process_image, run).                      *)
(*                                                                         *)
(* Three specifications share the module:                                  *)
(*   Spec       set_exif_date called repeatedly on one file                *)
(*   SpecBatch  find_and_set_exif_date over an enumerated directory        *)
(*   SpecTag    process_image called repeatedly on one file                *)
(* Each leaves the variables of the other two at their idle values.        *)
(***************************************************************************)
EXTENDS Integers, Sequences, FiniteSets, TLC

VARIABLES
    \* ---- the metadata tool, in Spec and SpecBatch
    storeNormalizes, \* whether it keeps a date written as "YYYY-MM-DD HH:MM:SS"
                     \* in the EXIF layout "YYYY:MM:DD HH:MM:SS"
    \* ---- Spec: one file under set_exif_date
    exif,        \* the file's EXIF:DateTimeOriginal / CreateDate / ModifyDate
    date,        \* the datetime argument of set_exif_date
    pre,         \* exif as it was before the last call
    issued,      \* the helper.set_tags calls of the last call, in order
    env,         \* what the ExifTool helper did in the last call
    calls,       \* number of calls of set_exif_date made so far
    clean,       \* every read and every write so far succeeded
    \* ---- SpecBatch: find_and_set_exif_date
    files,       \* get_image_files(directory)
    store,       \* store[i]: the EXIF dates of files[i]
    counter,     \* the loop's counter: files fully processed
    pc,          \* "loop", "done" or "raised" (an exception left the loop)
    last,        \* what the last iteration of the loop did
    \* ---- SpecTag: one file under process_image
    meta,        \* the file's descriptive metadata
    heic,        \* whether the file's name ends in .heic
    tpre,        \* meta as it was before the last call
    run,         \* what the last call of process_image did
    prev,        \* what the call before the last did
    runs         \* number of calls of process_image made so far

dateVars  == <<exif, date, pre, issued, env, calls, clean>>
batchVars == <<files, store, counter, pc, last>>
tagVars   == <<meta, heic, tpre, run, prev, runs>>
vars      == <<dateVars, batchVars, tagVars, storeNormalizes>>

(***************************************************************************)
(* Bounds of the model.                                                    *)
(***************************************************************************)
MaxDay   == 2    \* stored and candidate dates range over June 1..MaxDay
MaxCalls == 2    \* calls of set_exif_date on the file
MaxFiles == 2    \* length of the enumerated directory
MaxRuns  == 2    \* calls of process_image on the file

(***************************************************************************)
(* datetime: the naive datetime of Python, as a record.                    *)
(***************************************************************************)
DT(y, mo, d, h, mi, s) ==
    [year |-> y, month |-> mo, day |-> d, hour |-> h, minute |-> mi, second |-> s]

is_leap(y) == y % 4 = 0 /\ (y % 100 # 0 \/ y % 400 = 0)

days_in_month(y, mo) ==
    IF mo = 2 THEN (IF is_leap(y) THEN 29 ELSE 28)
    ELSE IF mo \in {4, 6, 9, 11} THEN 30 ELSE 31

\* datetime(y, mo, d, h, mi, s) raises ValueError unless this holds
valid_datetime(y, mo, d, h, mi, s) ==
    /\ y \in 1..9999
    /\ mo \in 1..12
    /\ d >= 1 /\ d <= days_in_month(y, mo)
    /\ h \in 0..23
    /\ mi \in 0..59
    /\ s \in 0..59

RECURSIVE days_before_month(_, _)
days_before_month(y, mo) ==
    IF mo = 1 THEN 0 ELSE days_before_month(y, mo - 1) + days_in_month(y, mo - 1)

days_before_year(y) ==
    (y - 1) * 365 + (y - 1) \div 4 - (y - 1) \div 100 + (y - 1) \div 400

\* proleptic Gregorian ordinal, day 1 = 0001-01-01
ordinal(dt) == days_before_year(dt.year) + days_before_month(dt.year, dt.month) + dt.day

\* (date1 - date2).total_seconds(); the day difference is taken first, so the
\* products stay far inside 32 bits for dates less than 60 years apart
total_seconds(date1, date2) ==
    (ordinal(date1) - ordinal(date2)) * 86400
      + (date1.hour - date2.hour) * 3600
      + (date1.minute - date2.minute) * 60
      + (date1.second - date2.second)

abs(x) == IF x < 0 THEN -x ELSE x

\* the mutant of dates_differ_more_than_24_hours: ">=" in place of ">"
dates_differ_at_least_24_hours(date1, date2) ==
    abs(total_seconds(date1, date2)) >= 24 * 3600

\* date_correct.py line 32
dates_differ_more_than_24_hours(date1, date2) ==
    abs(total_seconds(date1, date2)) > 24 * 3600

(***************************************************************************)
(* Date strings as the metadata tool holds them.  fmt is the layout of the *)
(* text: "exif" is "%Y:%m:%d %H:%M:%S", "iso" is str(datetime), that is    *)
(* "%Y-%m-%d %H:%M:%S", "bad" is text no format reads, "absent" is no tag. *)
(***************************************************************************)
NoDate == DT(0, 0, 0, 0, 0, 0)
Absent == [fmt |-> "absent", dt |-> NoDate]
Bad    == [fmt |-> "bad", dt |-> NoDate]

\* date.strftime("%Y:%m:%d %H:%M:%S")
strftime(d) == [fmt |-> "exif", dt |-> d]

\* f"-{tag}={value}" of a datetime value: str(datetime)
str_datetime(d) == [fmt |-> "iso", dt |-> d]

\* datetime.strptime(s, "%Y:%m:%d %H:%M:%S") raises ValueError unless this holds
strptime_ok(s) == s.fmt = "exif"
strptime(s) == s.dt

present(s) == s.fmt # "absent"

(***************************************************************************)
(* set_exif_date (date_correct.py).                                        *)
(***************************************************************************)
ExifOf(o, c, m) == [DateTimeOriginal |-> o, CreateDate |-> c, ModifyDate |-> m]

\* what one call meets: helper.get_tags fails, or helper.set_tags fails (when the
\* call comes to it), or neither
Envs ==
    { [readOk |-> TRUE, writeOk |-> TRUE], [readOk |-> FALSE, writeOk |-> TRUE],
      [readOk |-> TRUE, writeOk |-> FALSE] }

\* the mutant of lacks_dates: "and" in place of "or"
lacks_both_dates(tags) ==
    ~present(tags.DateTimeOriginal) /\ ~present(tags.CreateDate)

\* line 39: not "EXIF:DateTimeOriginal" in tags[0] or not "EXIF:CreateDate" in tags[0]
lacks_dates(tags) ==
    ~present(tags.DateTimeOriginal) \/ ~present(tags.CreateDate)

\* lines 48-54: tags[0]["EXIF:ModifyDate"] raises KeyError when the tag is
\* absent, and each strptime raises ValueError on text of another layout
compare_raises(tags) ==
    \/ ~present(tags.ModifyDate)
    \/ ~strptime_ok(tags.DateTimeOriginal)
    \/ ~strptime_ok(tags.CreateDate)
    \/ ~strptime_ok(tags.ModifyDate)

\* line 56
needs_update(d, tags) ==
    \/ dates_differ_more_than_24_hours(d, strptime(tags.DateTimeOriginal))
    \/ dates_differ_more_than_24_hours(d, strptime(tags.CreateDate))

\* line 44: all three tags set to date_str
fill_tags(d) == ExifOf(strftime(d), strftime(d), strftime(d))

\* line 60: DateTimeOriginal is the datetime itself, the other two the string
\* read from DateTimeOriginal
update_tags(d, tags) ==
    ExifOf(str_datetime(d), tags.DateTimeOriginal, tags.DateTimeOriginal)

\* what the metadata tool keeps of a written date string: the helper runs
\* ExifTool with -n (no print conversion), under which str(datetime) may be
\* kept as written rather than turned into the EXIF layout; storeNormalizes
\* says which of the two the tool does
kept(s, normalizes) ==
    IF s.fmt = "iso" /\ normalizes THEN [fmt |-> "exif", dt |-> s.dt] ELSE s

\* helper.set_tags(file_path, {...}) when it succeeds
helper_set_tags(new, normalizes) ==
    ExifOf(kept(new.DateTimeOriginal, normalizes),
           kept(new.CreateDate, normalizes),
           kept(new.ModifyDate, normalizes))

\* one helper.set_tags call inside set_exif_date: the call is issued, and the
\* file changes only when the call succeeds (a failure raises, line 64 logs it)
written(old, new, e, normalizes, branch) ==
    [exif   |-> IF e.writeOk THEN helper_set_tags(new, normalizes) ELSE old,
     issued |-> <<new>>,
     branch |-> branch]

untouched(old, branch) == [exif |-> old, issued |-> <<>>, branch |-> branch]

\* set_exif_date(file_path, date, modify) on a file whose EXIF dates are old
set_exif_date(old, d, modify, e, normalizes) ==
    IF ~e.readOk THEN untouched(old, "error")
    ELSE IF lacks_dates(old)
         THEN IF modify THEN written(old, fill_tags(d), e, normalizes, "fill")
                        ELSE untouched(old, "fill")
    ELSE IF compare_raises(old) THEN untouched(old, "error")
    ELSE IF needs_update(d, old)
         THEN IF modify THEN written(old, update_tags(d, old), e, normalizes, "update")
                        ELSE untouched(old, "update")
    ELSE untouched(old, "keep")

(***************************************************************************)
(* Spec: set_exif_date(path, date, True)    , as find_and_set_exif_date    *)
(* calls it, repeated on one file with one candidate date.                 *)
(***************************************************************************)
Before == DT(2023, 5, 30, 8, 15, 0)

DateTimes ==
    { DT(2023, 6, d, 8, 15, s) : d \in 1..MaxDay, s \in {0, 1, 40} } \cup {Before}

StoredDates == {Absent, Bad} \cup { strftime(d) : d \in DateTimes }
StoredModify == {Absent, Bad, strftime(Before)}

IdleExif == ExifOf(Absent, Absent, Absent)
IdleEnv  == [readOk |-> TRUE, writeOk |-> TRUE]

DateIdle ==
    /\ exif = IdleExif /\ pre = IdleExif /\ date = NoDate
    /\ issued = <<>> /\ env = IdleEnv /\ calls = 0 /\ clean = TRUE

InitDate ==
    /\ exif \in { ExifOf(o, c, m) : o \in StoredDates, c \in StoredDates,
                                    m \in StoredModify }
    /\ date \in DateTimes
    /\ storeNormalizes \in BOOLEAN
    /\ pre = exif
    /\ issued = <<>>
    /\ env = IdleEnv
    /\ calls = 0
    /\ clean = TRUE

SetExifDate ==
    /\ calls < MaxCalls
    /\ \E e \in Envs :
         LET r == set_exif_date(exif, date, TRUE, e, storeNormalizes) IN
           /\ exif' = r.exif
           /\ issued' = r.issued
           /\ env' = e
           /\ clean' = (clean /\ e.readOk /\ e.writeOk)
    /\ pre' = exif
    /\ calls' = calls + 1
    /\ UNCHANGED <<date, storeNormalizes>>

(***************************************************************************)
(* File names are sequences of one-character strings.                      *)
(***************************************************************************)
\* 23-05-24 14-30-05_trip.jpg: Pattern A, the example of the documentation
TripJpg ==
    <<"2", "3", "-", "0", "5", "-", "2", "4", " ", "1", "4", "-", "3", "0",
      "-", "0", "5", "_", "t", "r", "i", "p", ".", "j", "p", "g">>

\* 2023-05-24 14.30.05.jpg: Pattern A found at offset 2 of a four-digit year
UploadJpg ==
    <<"2", "0", "2", "3", "-", "0", "5", "-", "2", "4", " ", "1", "4", ".",
      "3", "0", ".", "0", "5", ".", "j", "p", "g">>

\* 23-13-24 14-30-05.jpg: Pattern A with month 13
Month13Jpg ==
    <<"2", "3", "-", "1", "3", "-", "2", "4", " ", "1", "4", "-", "3", "0",
      "-", "0", "5", ".", "j", "p", "g">>

\* IMG_20230601_081500.heic: Pattern B
ImgHeic ==
    <<"I", "M", "G", "_", "2", "0", "2", "3", "0", "6", "0", "1", "_", "0",
      "8", "1", "5", "0", "0", ".", "h", "e", "i", "c">>

\* PANO_20230230_101010.JPG: Pattern B with February 30
PanoFeb30 ==
    <<"P", "A", "N", "O", "_", "2", "0", "2", "3", "0", "2", "3", "0", "_",
      "1", "0", "1", "0", "1", "0", ".", "J", "P", "G">>

\* holiday.jpg: no pattern
HolidayJpg ==
    <<"h", "o", "l", "i", "d", "a", "y", ".", "j", "p", "g">>

\* 23-05-24 14-30-05.jpeg: enumerated, but not a .jpg or .heic
TripJpeg ==
    <<"2", "3", "-", "0", "5", "-", "2", "4", " ", "1", "4", "-", "3", "0",
      "-", "0", "5", ".", "j", "p", "e", "g">>

\* notes.txt: not an image
NotesTxt ==
    <<"n", "o", "t", "e", "s", ".", "t", "x", "t">>

\* IMG_20230601_081500 23-06-03 08.15.00.jpg: both patterns
BothJpg ==
    <<"I", "M", "G", "_", "2", "0", "2", "3", "0", "6", "0", "1", "_", "0",
      "8", "1", "5", "0", "0", " ", "2", "3", "-", "0", "6", "-", "0", "3",
      " ", "0", "8", ".", "1", "5", ".", "0", "0", ".", "j", "p", "g">>

\* IMG_20230601_081500 23-13-03 08.15.00.jpg: both patterns, Pattern A with month 13
BothMonth13Jpg ==
    <<"I", "M", "G", "_", "2", "0", "2", "3", "0", "6", "0", "1", "_", "0",
      "8", "1", "5", "0", "0", " ", "2", "3", "-", "1", "3", "-", "0", "3",
      " ", "0", "8", ".", "1", "5", ".", "0", "0", ".", "j", "p", "g">>

DirNames ==
    {TripJpg, UploadJpg, Month13Jpg, ImgHeic, PanoFeb30,
     HolidayJpg, TripJpeg, NotesTxt, BothJpg, BothMonth13Jpg}

Digits == {"0", "1", "2", "3", "4", "5", "6", "7", "8", "9"}

\* int(c) of one decimal digit
digit(c) ==
    CASE c = "0" -> 0 [] c = "1" -> 1 [] c = "2" -> 2 [] c = "3" -> 3
      [] c = "4" -> 4 [] c = "5" -> 5 [] c = "6" -> 6 [] c = "7" -> 7
      [] c = "8" -> 8 [] c = "9" -> 9

\* int() of the two digits, and of the four digits, of s that start at i
int2(s, i) == 10 * digit(s[i]) + digit(s[i + 1])
int4(s, i) == 100 * int2(s, i) + int2(s, i + 2)

\* str.lower(), on the capitals that occur in DirNames
lower_char(c) ==
    CASE c = "I" -> "i" [] c = "M" -> "m" [] c = "G" -> "g" [] c = "P" -> "p"
      [] c = "A" -> "a" [] c = "N" -> "n" [] c = "O" -> "o" [] c = "J" -> "j"
      [] OTHER -> c

lower(s) == [i \in 1..Len(s) |-> lower_char(s[i])]

endswith(s, suffix) ==
    /\ Len(s) >= Len(suffix)
    /\ SubSeq(s, Len(s) - Len(suffix) + 1, Len(s)) = suffix

\* tagger.py line 159: file.lower().endswith(('.jpg', '.jpeg', '.heic'))
is_image_file(file) ==
    \/ endswith(lower(file), <<".", "j", "p", "g">>)
    \/ endswith(lower(file), <<".", "j", "p", "e", "g">>)
    \/ endswith(lower(file), <<".", "h", "e", "i", "c">>)

\* get_image_files(directory), on the directory's files in walk order
get_image_files(listing) == SelectSeq(listing, is_image_file)

\* date_correct.py line 77: file.lower().endswith(('.jpg', '.heic'))
has_date_extension(file) ==
    \/ endswith(lower(file), <<".", "j", "p", "g">>)
    \/ endswith(lower(file), <<".", "h", "e", "i", "c">>)

digits_at(s, i, n) == \A k \in i..(i + n - 1) : s[k] \in Digits

\* line 78: (\d{2})-(\d{2})-(\d{2}) (\d{2})[-\.](\d{2})[-\.](\d{2})(.*) at i
matches_A_at(s, i) ==
    /\ i >= 1 /\ i + 16 <= Len(s)
    /\ digits_at(s, i, 2) /\ s[i + 2] = "-"
    /\ digits_at(s, i + 3, 2) /\ s[i + 5] = "-"
    /\ digits_at(s, i + 6, 2) /\ s[i + 8] = " "
    /\ digits_at(s, i + 9, 2) /\ s[i + 11] \in {"-", "."}
    /\ digits_at(s, i + 12, 2) /\ s[i + 14] \in {"-", "."}
    /\ digits_at(s, i + 15, 2)

\* the text (IMG|PANO)_ matched at i: its length, 0 when neither is there
prefix_B_at(s, i) ==
    IF i + 3 <= Len(s) /\ SubSeq(s, i, i + 3) = <<"I", "M", "G", "_">> THEN 4
    ELSE IF i + 4 <= Len(s) /\ SubSeq(s, i, i + 4) = <<"P", "A", "N", "O", "_">> THEN 5
    ELSE 0

\* line 87: (IMG|PANO)_(\d{4})(\d{2})(\d{2})_(\d{2})(\d{2})(\d{2})(.*) at i
matches_B_at(s, i) ==
    LET p == prefix_B_at(s, i) IN
      /\ i >= 1 /\ p > 0
      /\ i + p + 14 <= Len(s)
      /\ digits_at(s, i + p, 8) /\ s[i + p + 8] = "_"
      /\ digits_at(s, i + p + 9, 6)

\* date_pattern.search(file): the leftmost index from i on where the pattern
\* matches, 0 for no match
RECURSIVE first_A_from(_, _)
first_A_from(s, i) ==
    IF i > Len(s) THEN 0
    ELSE IF matches_A_at(s, i) THEN i ELSE first_A_from(s, i + 1)

RECURSIVE first_B_from(_, _)
first_B_from(s, i) ==
    IF i > Len(s) THEN 0
    ELSE IF matches_B_at(s, i) THEN i ELSE first_B_from(s, i + 1)

\* the two searches of lines 79 and 88, tabulated once for each name
Searches ==
    [s \in DirNames |-> [A |-> first_A_from(s, 1), B |-> first_B_from(s, 1)]]

search_A(s) == Searches[s].A
search_B(s) == Searches[s].B

\* the mutant of candidate_A: the groups read as day, month, year
candidate_A_dmy(s, i) ==
    DT(2000 + int2(s, i + 6), int2(s, i + 3), int2(s, i),
       int2(s, i + 9), int2(s, i + 12), int2(s, i + 15))

\* lines 83-85: _, yy, mm, dd, hh, minute, ss, _ = match.groups();
\* yyyy = f"20{yy}"; the arguments of datetime(...)
candidate_A(s, i) ==
    DT(2000 + int2(s, i), int2(s, i + 3), int2(s, i + 6),
       int2(s, i + 9), int2(s, i + 12), int2(s, i + 15))

\* lines 92-93: _, _, yyyy, mm, dd, hh, minute, ss, _ = match.groups()
candidate_B(s, i) ==
    LET j == i + prefix_B_at(s, i) IN
      DT(int4(s, j), int2(s, j + 4), int2(s, j + 6),
         int2(s, j + 9), int2(s, j + 11), int2(s, j + 13))

\* whether datetime(...) of these arguments returns rather than raises
constructs(d) == valid_datetime(d.year, d.month, d.day, d.hour, d.minute, d.second)

(***************************************************************************)
(* find_and_set_exif_date (date_correct.py): one iteration of the loop,    *)
(* lines 72-99, on a file whose EXIF dates are old.  eA and eB are what    *)
(* the two calls of set_exif_date meet.  raised: a ValueError of           *)
(* datetime(...) at line 85 or 93, which nothing in the loop catches.      *)
(***************************************************************************)
\* what one pattern did in the iteration.  tried: its search was executed
\* (line 79 or 88); found: the search matched; ran: set_exif_date was called
\* (line 86 or 94) on the file holding the dates `read`, and left it holding
\* the dates `left`
NoMatch == [tried |-> FALSE, found |-> FALSE, ran |-> FALSE, date |-> NoDate,
            issued |-> <<>>, read |-> IdleExif, left |-> IdleExif]

iteration(file, old, eA, eB, normalizes) ==
    LET considered == has_date_extension(file)
        iA == IF considered THEN search_A(file) ELSE 0
        dA == candidate_A(file, iA)
        rA == IF iA > 0 /\ constructs(dA)
              THEN set_exif_date(old, dA, TRUE, eA, normalizes)
              ELSE untouched(old, "none")
        raisedA == iA > 0 /\ ~constructs(dA)
        triedB == considered /\ ~raisedA
        iB == IF triedB THEN search_B(file) ELSE 0
        dB == candidate_B(file, iB)
        rB == IF iB > 0 /\ constructs(dB)
              THEN set_exif_date(rA.exif, dB, TRUE, eB, normalizes)
              ELSE untouched(rA.exif, "none")
        raisedB == iB > 0 /\ ~constructs(dB)
    IN  [index   |-> 0,
         old     |-> old,
         exif    |-> rB.exif,
         raised  |-> raisedA \/ raisedB,
         matched |-> iA > 0 \/ iB > 0,
         a |-> IF iA > 0
               THEN [tried |-> TRUE, found |-> TRUE, ran |-> constructs(dA),
                     date |-> dA, issued |-> rA.issued,
                     read |-> IF constructs(dA) THEN old ELSE IdleExif,
                     left |-> IF constructs(dA) THEN rA.exif ELSE IdleExif]
               ELSE [NoMatch EXCEPT !.tried = considered],
         b |-> IF iB > 0
               THEN [tried |-> TRUE, found |-> TRUE, ran |-> constructs(dB),
                     date |-> dB, issued |-> rB.issued,
                     read |-> IF constructs(dB) THEN rA.exif ELSE IdleExif,
                     left |-> IF constructs(dB) THEN rB.exif ELSE IdleExif]
               ELSE [NoMatch EXCEPT !.tried = triedB]]

(***************************************************************************)
(* SpecBatch: find_and_set_exif_date(directory).                           *)
(***************************************************************************)
Within == DT(2023, 6, 1, 8, 15, 40)

\* the EXIF dates a file of the directory starts with
InitialExifs ==
    {IdleExif, ExifOf(strftime(Within), strftime(Within), strftime(Within))}

Listings == UNION { [1..n -> DirNames] : n \in 0..MaxFiles }

IdleLast == [index |-> 0, old |-> IdleExif, exif |-> IdleExif,
             raised |-> FALSE, matched |-> FALSE,
             a |-> NoMatch, b |-> NoMatch]

BatchIdle ==
    /\ files = <<>> /\ store = <<>> /\ counter = 0 /\ pc = "idle"
    /\ last = IdleLast

InitBatch ==
    /\ \E listing \in Listings : files = get_image_files(listing)
    /\ store \in [1..Len(files) -> InitialExifs]
    /\ storeNormalizes \in BOOLEAN
    /\ counter = 0
    /\ pc = "loop"
    /\ last = IdleLast

\* lines 72-99 for the next file of the loop
Iterate ==
    /\ pc = "loop"
    /\ counter < Len(files)
    /\ \E eA \in Envs, eB \in Envs :
         last' = [iteration(files[counter + 1], store[counter + 1], eA, eB,
                            storeNormalizes)
                    EXCEPT !.index = counter + 1]
    /\ store' = [store EXCEPT ![counter + 1] = last'.exif]
    /\ pc' = IF last'.raised THEN "raised" ELSE "loop"
    /\ counter' = IF last'.raised THEN counter ELSE counter + 1
    /\ UNCHANGED <<files, storeNormalizes>>

\* the for loop is exhausted and find_and_set_exif_date returns
LoopExit ==
    /\ pc = "loop"
    /\ counter = Len(files)
    /\ pc' = "done"
    /\ UNCHANGED <<files, store, counter, last, storeNormalizes>>

(***************************************************************************)
(* process_image (tagger.py).  Text is a sequence of one-character         *)
(* strings; a tag that is absent from the file is the empty sequence (the  *)
(* metadata tool deletes a tag that is written as empty text).             *)
(***************************************************************************)
Whitespace == {" "}

\* str.strip()
RECURSIVE lstrip(_)
lstrip(t) == IF t # <<>> /\ Head(t) \in Whitespace THEN lstrip(Tail(t)) ELSE t

RECURSIVE rstrip(_)
rstrip(t) ==
    IF t # <<>> /\ t[Len(t)] \in Whitespace THEN rstrip(SubSeq(t, 1, Len(t) - 1)) ELSE t

strip(t) == rstrip(lstrip(t))

MetaOf(kw, su, wr, hl, ti, de, ca, ds) ==
    [Keywords |-> kw, Subject |-> su, WriterEditor |-> wr,
     Headline |-> hl, Title |-> ti, ImageDescription |-> de,
     CaptionAbstract |-> ca, Description |-> ds]

\* the model argument of process_image
Model == <<"m">>

\* what the provider's message holds.  kind "error": the request raises;
\* "notjson": text json.loads rejects; "nonobject": JSON that is no object
\* (or no text at all); "object": a JSON object with the keys in keys.
NoResponse == [kind |-> "none", keys |-> {}, tags |-> <<>>,
               headline |-> <<>>, abstract |-> <<>>]

Failure(k) == [NoResponse EXCEPT !.kind = k]

\* parse_json_result, lines 127-135: the parsed object, {} on JSONDecodeError
parse_json_result(resp) ==
    IF resp.kind = "notjson" THEN [NoResponse EXCEPT !.kind = "object"] ELSE resp

\* result.get(key, default), lines 233-237
get_tags_value(result) == IF "tags" \in result.keys THEN result.tags ELSE <<>>
get_headline(result) == IF "headline" \in result.keys THEN result.headline ELSE <<>>
get_abstract(result) == IF "abstract" \in result.keys THEN result.abstract ELSE <<>>

\* lines 242-253: the tags handed to helper.set_tags
describe_tags(result, model) ==
    LET tags == [i \in 1..Len(get_tags_value(result)) |-> strip(get_tags_value(result)[i])]
        headline == strip(get_headline(result))
        abstract == strip(get_abstract(result))
    IN  MetaOf(tags, tags, model, headline, headline, headline, abstract, abstract)

nonempty(t) == t # <<>>

\* one list-valued tag under helper.set_tags: one -TAG=item argument per item,
\* so an empty list leaves the tag as it was, and empty items add nothing
set_list(old, new) == IF new = <<>> THEN old ELSE SelectSeq(new, nonempty)

\* helper.set_tags(image_path, tags={...}) when it succeeds
helper_set_meta(old, new) ==
    [new EXCEPT !.Keywords = set_list(old.Keywords, new.Keywords),
                !.Subject = set_list(old.Subject, new.Subject)]

\* the mutant of has_tags: only the IPTC alias is looked at
has_keywords_only(tags) == tags.Keywords # <<>>

\* line 223: "XMP:Subject" in tags[0] or "IPTC:Keywords" in tags[0]
has_tags(tags) == tags.Subject # <<>> \/ tags.Keywords # <<>>

\* the mutant of skips: the "not" before overwrite left out
skips_if_overwrite(tags, overwrite) == overwrite /\ has_tags(tags)

\* lines 222-223: the image is skipped
skips(tags, overwrite) == ~overwrite /\ has_tags(tags)

\* what one call meets: which of its steps fails first, if any (a step after
\* a failed one is never taken)
TagEnvs ==
    { [readOk |-> r, convOk |-> c, writeOk |-> w] :
        <<r, c, w>> \in { <<TRUE, TRUE, TRUE>>, <<FALSE, TRUE, TRUE>>,
                          <<TRUE, FALSE, TRUE>>, <<TRUE, TRUE, FALSE>> } }

Outcome(m, skipped, conv, prov, iss) ==
    [meta |-> m, skipped |-> skipped, conv |-> conv, prov |-> prov, issued |-> iss]

\* process_image(image_path, model, overwrite) on a file whose metadata is old;
\* conv and prov count the calls of convert_heic_to_jpg and of the provider
process_image(old, is_heic, model, overwrite, e, resp) ==
    LET conv == IF is_heic THEN 1 ELSE 0
        result == parse_json_result(resp)
        new == describe_tags(result, model)
    IN  IF ~e.readOk THEN Outcome(old, FALSE, 0, 0, <<>>)
        ELSE IF skips(old, overwrite) THEN Outcome(old, TRUE, 0, 0, <<>>)
        \* convert_is_heic_to_jpg returned None: open(None) raises before the request
        ELSE IF is_heic /\ ~e.convOk THEN Outcome(old, FALSE, conv, 0, <<>>)
        ELSE IF resp.kind = "error" THEN Outcome(old, FALSE, conv, 1, <<>>)
        \* result.strip() or result.get raises AttributeError
        ELSE IF resp.kind = "nonobject" THEN Outcome(old, FALSE, conv, 1, <<>>)
        ELSE Outcome(IF e.writeOk THEN helper_set_meta(old, new) ELSE old,
                     FALSE, conv, 1, <<new>>)

(***************************************************************************)
(* SpecTag: process_image(image_path, model, overwrite), as run calls it,  *)
(* repeated on one file.                                                   *)
(***************************************************************************)
Keys == {"tags", "headline", "abstract"}

TagLists == { <<>>, << <<" ", "k">> >>, << <<" ">> >> }
Headlines == { <<" ", "h", " ">> }
Abstracts == { <<"a", " ">> }

Objects ==
    { [kind |-> "object", keys |-> ks,
       tags |-> IF "tags" \in ks THEN t ELSE <<>>,
       headline |-> IF "headline" \in ks THEN h ELSE <<>>,
       abstract |-> IF "abstract" \in ks THEN a ELSE <<>>] :
      ks \in SUBSET Keys, t \in TagLists, h \in Headlines, a \in Abstracts }

Responses == {Failure("error"), Failure("notjson"), Failure("nonobject")} \cup Objects

\* the descriptive metadata a file starts with
InitialMetas ==
    { MetaOf(kw, su, wr, hl, hl, hl, ab, ab) :
        kw \in {<<>>, << <<"x">> >>}, su \in {<<>>, << <<"x">> >>},
        wr \in {<<>>, <<"w">>}, hl \in {<<>>, <<"H">>}, ab \in {<<>>, <<"A">>} }

IdleMeta == MetaOf(<<>>, <<>>, <<>>, <<>>, <<>>, <<>>, <<>>, <<>>)

IdleRun == [overwrite |-> FALSE, skipped |-> FALSE, conv |-> 0, prov |-> 0,
            resp |-> NoResponse, issued |-> <<>>, wrote |-> FALSE]

\* what is remembered of the call before the last
IdlePrev == [overwrite |-> FALSE, skipped |-> FALSE, tagged |-> FALSE]

\* the call stored at least one tag that is not blank
tagged(r) ==
    /\ r.wrote
    /\ \E i \in 1..Len(r.issued[1].Keywords) : r.issued[1].Keywords[i] # <<>>

TagIdle ==
    /\ meta = IdleMeta /\ tpre = IdleMeta /\ heic = FALSE
    /\ run = IdleRun /\ prev = IdlePrev /\ runs = 0

InitTag ==
    /\ meta \in InitialMetas
    /\ heic \in BOOLEAN
    /\ tpre = meta
    /\ run = IdleRun
    /\ prev = IdlePrev
    /\ runs = 0

ProcessImage ==
    /\ runs < MaxRuns
    /\ \E overwrite \in BOOLEAN, e \in TagEnvs, resp \in Responses :
         LET r == process_image(meta, heic, Model, overwrite, e, resp) IN
           /\ meta' = r.meta
           /\ run' = [overwrite |-> overwrite, skipped |-> r.skipped,
                      conv |-> r.conv, prov |-> r.prov,
                      resp |-> IF r.prov = 1 THEN resp ELSE NoResponse,
                      issued |-> r.issued,
                      wrote |-> r.issued # <<>> /\ e.writeOk]
    /\ tpre' = meta
    /\ prev' = [overwrite |-> run.overwrite, skipped |-> run.skipped,
                tagged |-> tagged(run)]
    /\ runs' = runs + 1
    /\ UNCHANGED heic

(***************************************************************************)
(* The specifications.                                                     *)
(***************************************************************************)
Init == InitDate /\ BatchIdle /\ TagIdle
Next == SetExifDate /\ UNCHANGED <<batchVars, tagVars>>
Spec == Init /\ [][Next]_vars

InitB == InitBatch /\ DateIdle /\ TagIdle
NextB ==
    \/ Iterate /\ UNCHANGED <<dateVars, tagVars>>
    \/ LoopExit /\ UNCHANGED <<dateVars, tagVars>>
SpecBatch == InitB /\ [][NextB]_vars

InitT == InitTag /\ DateIdle /\ BatchIdle /\ storeNormalizes = TRUE
NextT == ProcessImage /\ UNCHANGED <<dateVars, batchVars, storeNormalizes>>
SpecTag == InitT /\ [][NextT]_vars

(***************************************************************************)
(* Claims about set_exif_date, under Spec.                                 *)
(***************************************************************************)
Called == calls > 0

\* the dates read before the last call were both valid EXIF date strings
BothReadable == strptime_ok(pre.DateTimeOriginal) /\ strptime_ok(pre.CreateDate)

Apart(d, s) == abs(total_seconds(d, strptime(s)))

\* C1 (as claimed): when DateTimeOriginal and CreateDate are both present, with
\* ModifyDate present or absent, and the candidate is more than 24 hours from
\* DateTimeOriginal, the call issues exactly one write, in which
\* DateTimeOriginal is the candidate and CreateDate and ModifyDate are the
\* DateTimeOriginal read before the write.
C1_ConflictWrite ==
    ( /\ Called /\ env.readOk /\ BothReadable
      /\ pre.ModifyDate.fmt \in {"absent", "exif"}
      /\ Apart(date, pre.DateTimeOriginal) > 86400 )
    => /\ Len(issued) = 1
       /\ issued[1].DateTimeOriginal.dt = date
       /\ issued[1].CreateDate = pre.DateTimeOriginal
       /\ issued[1].ModifyDate = pre.DateTimeOriginal

\* C2: when DateTimeOriginal or CreateDate is absent, the call issues one write
\* that sets all three dates to the candidate, whatever the distance of a
\* present date from the candidate; the file holds them when the write succeeds.
C2_FillWrite ==
    ( /\ Called /\ env.readOk
      /\ (~present(pre.DateTimeOriginal) \/ ~present(pre.CreateDate)) )
    => /\ issued = << ExifOf(strftime(date), strftime(date), strftime(date)) >>
       /\ env.writeOk =>
            exif = ExifOf(strftime(date), strftime(date), strftime(date))

\* C2 witness: DateTimeOriginal was present and within 24 hours of the candidate,
\* CreateDate was absent, and the write replaced DateTimeOriginal.
C2_Witness ==
    /\ Called /\ env.readOk /\ env.writeOk
    /\ strptime_ok(pre.DateTimeOriginal)
    /\ Apart(date, pre.DateTimeOriginal) <= 86400
    /\ strptime(pre.DateTimeOriginal) # date
    /\ ~present(pre.CreateDate)
    /\ Len(issued) = 1
    /\ exif.DateTimeOriginal = strftime(date)

\* C3: when DateTimeOriginal and CreateDate are both present and both at most
\* 24 hours (86400 seconds, inclusive) from the candidate, the call issues no
\* write and leaves the three dates as they were.
C3_WithinTolerance ==
    ( /\ Called /\ BothReadable
      /\ Apart(date, pre.DateTimeOriginal) <= 86400
      /\ Apart(date, pre.CreateDate) <= 86400 )
    => issued = <<>> /\ exif = pre

\* C3 witness: the comparison was reached with DateTimeOriginal exactly 24 hours
\* from the candidate.
C3_Witness ==
    /\ Called /\ env.readOk /\ BothReadable
    /\ strptime_ok(pre.ModifyDate)
    /\ Apart(date, pre.DateTimeOriginal) = 86400
    /\ Apart(date, pre.CreateDate) <= 86400
    /\ issued = <<>>

LastFile == files[last.index]

\* the leftmost place where Pattern A matches in s
LeftmostA(s) ==
    CHOOSE i \in 1..Len(s) :
      matches_A_at(s, i) /\ \A j \in 1..(i - 1) : ~matches_A_at(s, j)

\* the last iteration built a candidate from Pattern A
BuiltA == last.index > 0 /\ last.a.found /\ constructs(last.a.date)

\* C5 (as claimed): the candidate of Pattern A has the first two-digit group as
\* its day, the second as its month and 2000 + the third as its year;
\* 23-05-24 14-30-05_trip.jpg yields 2024-05-23T14:30:05.
C5_DayMonthYear ==
    BuiltA =>
      LET i == LeftmostA(LastFile) IN
        /\ last.a.date.day = int2(LastFile, i)
        /\ last.a.date.month = int2(LastFile, i + 3)
        /\ last.a.date.year = 2000 + int2(LastFile, i + 6)
        /\ LastFile = TripJpg => last.a.date = DT(2024, 5, 23, 14, 30, 5)

\* C5 (amended): the candidate of Pattern A has 2000 + the first two-digit group
\* as its year, the second as its month and the third as its day, and the three
\* groups after the space as hour, minute and second;
\* 23-05-24 14-30-05_trip.jpg yields 2023-05-24T14:30:05.
C5_YearMonthDay ==
    BuiltA =>
      LET i == LeftmostA(LastFile) IN
        /\ last.a.date.year = 2000 + int2(LastFile, i)
        /\ last.a.date.month = int2(LastFile, i + 3)
        /\ last.a.date.day = int2(LastFile, i + 6)
        /\ last.a.date.hour = int2(LastFile, i + 9)
        /\ last.a.date.minute = int2(LastFile, i + 12)
        /\ last.a.date.second = int2(LastFile, i + 15)
        /\ LastFile = TripJpg => last.a.date = DT(2023, 5, 24, 14, 30, 5)

\* C5 witness: 23-05-24 14-30-05_trip.jpg was processed with no dates in the
\* file, and all three dates were written as 2023-05-24T14:30:05.
C5_Witness ==
    /\ BuiltA /\ LastFile = TripJpg
    /\ Len(last.a.issued) = 1
    /\ store[last.index] =
         ExifOf(strftime(DT(2023, 5, 24, 14, 30, 5)),
                strftime(DT(2023, 5, 24, 14, 30, 5)),
                strftime(DT(2023, 5, 24, 14, 30, 5)))

\* C6 (as claimed): no failure of one file leaves the loop; the batch reaches
\* its end with every enumerated file processed.
C6_BadFileNeverBlocks ==
    /\ pc # "raised"
    /\ pc = "done" => counter = Len(files)

(***************************************************************************)
(* Claims about process_image, under SpecTag.                              *)
(***************************************************************************)
Ran == runs > 0

\* the provider's message is no JSON, or lacks tags, headline or abstract
Malformed(resp) ==
    \/ resp.kind \in {"notjson", "nonobject"}
    \/ resp.kind = "object" /\ resp.keys # Keys

Descriptive ==
    {"Keywords", "Subject", "Headline", "Title", "ImageDescription",
     "CaptionAbstract", "Description"}

\* C7 (as claimed): when the provider's message is malformed, the call issues no
\* write and the file's metadata is as it was, with overwrite set or not.
C7_MalformedNoWrite ==
    (Ran /\ run.prov = 1 /\ Malformed(run.resp))
    => run.issued = <<>> /\ meta = tpre

\* C8 (as claimed): with overwrite not set and any of tags, headline or abstract
\* populated, the call leaves every populated descriptive field as it was.
C8_KeepsExisting ==
    ( /\ Ran /\ ~run.overwrite
      /\ \E f \in Descriptive : tpre[f] # <<>> )
    => \A f \in Descriptive : tpre[f] # <<>> => meta[f] = tpre[f]

\* C9: with overwrite not set and the subject alias or the keywords alias
\* populated, the call makes no conversion, no provider request and no write.
C9_SkipRule ==
    ( /\ Ran /\ ~run.overwrite
      /\ (tpre.Subject # <<>> \/ tpre.Keywords # <<>>) )
    => run.conv = 0 /\ run.prov = 0 /\ run.issued = <<>> /\ meta = tpre

\* C9 witness: a .heic file with only the subject alias populated was skipped.
C9_Witness ==
    /\ Ran /\ ~run.overwrite /\ heic
    /\ tpre.Subject # <<>> /\ tpre.Keywords = <<>>
    /\ run.skipped

\* C10 (as claimed): of two calls in a row with overwrite not set, the second
\* makes no provider request and no write and leaves the metadata as the first
\* left it, whatever the provider did in the first.
C10_SecondRunNoOp ==
    (runs >= 2 /\ ~prev.overwrite /\ ~run.overwrite)
    => run.prov = 0 /\ run.issued = <<>> /\ meta = tpre

\* C10 (amended): of two calls in a row with overwrite not set, when the first
\* skipped the file or stored at least one tag that is not blank, the second
\* makes no conversion, no provider request and no write and leaves the
\* metadata as the first left it.
C10_SecondRunNoOpWhenTagged ==
    ( /\ runs >= 2 /\ ~prev.overwrite /\ ~run.overwrite
      /\ (prev.skipped \/ prev.tagged) )
    => run.conv = 0 /\ run.prov = 0 /\ run.issued = <<>> /\ meta = tpre

\* C10 witness: the first call stored the provider's tags in a file that had
\* none, and the second call skipped the file.
C10_Witness ==
    /\ runs >= 2 /\ ~prev.overwrite /\ ~run.overwrite
    /\ prev.tagged /\ ~prev.skipped
    /\ run.skipped /\ meta = tpre

(***************************************************************************)
(* Dual pattern matching in find_and_set_exif_date, under SpecBatch.       *)
(***************************************************************************)
MatchesA(s) == \E i \in 1..Len(s) : matches_A_at(s, i)
MatchesB(s) == \E i \in 1..Len(s) : matches_B_at(s, i)

\* the last iteration was on a name ending in .jpg or .heic
Considered == last.index > 0 /\ has_date_extension(LastFile)

\* set_exif_date ran for Pattern A and then for Pattern B, the second call on
\* the dates the first left, and the file holds what the second left
RanTwiceInOrder ==
    /\ last.a.ran /\ last.b.ran
    /\ last.a.read = last.old
    /\ last.b.read = last.a.left
    /\ last.exif = last.b.left
    /\ store[last.index] = last.b.left

\* C11 (as claimed): for every .jpg/.heic name Pattern B is attempted, and finds
\* its match, whether or not Pattern A matched, and when both match, set_exif_date runs twice, for
\* A and then for B, the second call reading the dates the first left, so that
\* the file ends with what B's candidate made of the dates left for A's.
C11_DualPattern ==
    Considered =>
      /\ last.b.found <=> MatchesB(LastFile)
      /\ (MatchesA(LastFile) /\ MatchesB(LastFile)) => RanTwiceInOrder

\* The same when no datetime(...) of the iteration raised: Pattern B is
\* attempted whether or not Pattern A matched, and when both match the two
\* calls run in the order A, B on one another's result.
DualPatternWhenDatesLegal ==
    (Considered /\ ~last.raised) =>
      /\ last.a.tried /\ last.b.tried
      /\ last.a.found <=> MatchesA(LastFile)
      /\ last.b.found <=> MatchesB(LastFile)
      /\ (MatchesA(LastFile) /\ MatchesB(LastFile)) => RanTwiceInOrder
      /\ (MatchesB(LastFile) /\ ~MatchesA(LastFile)) =>
            last.b.ran /\ last.b.read = last.old

\* A state where both calls wrote: the file had no dates, Pattern A's call
\* filled all three with 2023-06-03T08:15:00, and Pattern B's call then set
\* DateTimeOriginal to 2023-06-01T08:15:00 and the other two to the
\* DateTimeOriginal that Pattern A's call had written.
DualPatternBothWrote ==
    /\ Considered /\ LastFile = BothJpg /\ ~last.raised
    /\ last.old = IdleExif
    /\ last.a.left = fill_tags(DT(2023, 6, 3, 8, 15, 0))
    /\ last.exif.DateTimeOriginal.dt = DT(2023, 6, 1, 8, 15, 0)
    /\ last.exif.CreateDate = strftime(DT(2023, 6, 3, 8, 15, 0))
    /\ last.exif.ModifyDate = strftime(DT(2023, 6, 3, 8, 15, 0))

====
